---- MODULE Spec2Model ----
(***************************************************************************)
(* Model of kengoon/music-player:                                          *)
(*   - libs/serialize.py : marshalling between Python and Java collections *)
(*   - components/effects.py : StretchOverScrollStencil                    *)
(*   - features/player/presentation.py : PlayerScreen                      *)
(*   - features/screenmanager.py, ui/theme.py, main.py : the application's *)
(*     screen manager and theme manager                                    *)
(* Each part has its own specification; the variables of the other parts  *)
(* stay at their initial values.                                           *)
(***************************************************************************)
EXTENDS Integers, Sequences, FiniteSets, TLC

VARIABLES
    \* libs/serialize.py
    data,          \* the argument of the call
    raw_python,    \* the flag of serialize()
    call,          \* the function that was called ("" before the call)
    result,        \* what the call produced: [raised, value]
    \* components/effects.py, StretchOverScrollStencil
    target_widget,     \* TRUE once the scroll view has given the effect its content
    target_height,     \* height of the content (target_widget.height)
    scroll_view,       \* "None" or "sv"
    scroll_scale,      \* "None" or "_internal_scale"
    scale_y,           \* the Scale instruction's y, in millionths
    origin,            \* the Scale instruction's origin
    scroll_x,          \* scroll_view.scroll_x, in 1/ScrollRes
    scroll_y,          \* scroll_view.scroll_y, in 1/ScrollRes
    do_scroll_y,       \* scroll_view.do_scroll_y
    velocity,          \* the effect's velocity
    should_absorb,     \* _should_absorb
    last_touch_pos,    \* <<>> (None) or the position of the touch down
    anims,             \* the running animations of the Scale instruction
    eff_last,          \* the last call the scroll view made and what it did
    absorbs_at_edge,   \* absorb_impact calls since the scroll last left 0 and 1
    inputs_left,       \* calls the scroll view will still make
    \* features/player/presentation.py, PlayerScreen
    player,                    \* "None" or "ExoPlayer"
    permission_granted,
    pending_requests,          \* permission requests whose callback is still to come
    update_playlist_scheduled, \* the @triggered(1) event of update_playlist
    update_progress_scheduled, \* the @triggered(1/24, True) event of update_progress
    preview_icon,              \* ids.preview_play_btn.icon
    container_icon,            \* ids.container_play_btn.icon
    preview_progress,          \* ids.preview_progress.value, in 1/ProgressScale
    container_progress,        \* ids.container_progress.value
    labels,                    \* titles, artists and thumbnails of both views
    rv_data,                   \* ids.rv.data
    pl_last,                   \* the last handler that ran and what it did
    \* main.py, features/screenmanager.py, ui/theme.py
    platform,              \* kivy.platform
    screens,               \* AppScreenManager.screens
    current,               \* AppScreenManager.current ("None" before the first set)
    current_screen,        \* index in screens of current_screen, 0 for None
    bar,                   \* win_md_bnb.bar is set
    sm_last,               \* the last handler of the screen manager and what it did
    theme_style,
    bg_color, primary_color, secondary_color, accent_color, text_color,
    shadow_color, card_color,
    clearcolor,            \* Window.clearcolor
    bar_icons,             \* the colour main.py gives the status and navigation bars
    set_theme_scheduled,   \* set_theme runs the Clock still owes (@mainthread)
    th_last,               \* the last step of the theme manager
    \* features/basescreen.py
    screen_extras,         \* the dictionary shared by the screens
    ext_last,              \* the last call on the extras and what it returned
    \* components/effects.py, on_overscroll of the scroll effects
    effect_class,          \* the class of the effect
    ov_target_widget,      \* the effect has a target_widget
    sv_on_overscroll,      \* hasattr(sv, "on_overscroll")
    overscroll,            \* the effect's overscroll
    dispatched,            \* what the last on_overscroll dispatched on sv, in order
    velocity_update,       \* DampedScrollEffect's trigger_velocity_update is set
    ov_last,               \* the last handler and whether it raised
    \* features/player/presentation.py, the player sheet of PlayerScreen
    rv_disabled,           \* ids.rv.disabled
    overlay_children,      \* ids.overlay.children, the newest first
    sheet_props,           \* where the animations have left the four widgets
    sheet_anims,           \* the running animations of the sheet, in start order
    last_request,          \* "none", "push_up" or "push_down"
    sheet_raised,          \* an on_complete callback has raised IndexError
    pushes_left            \* push_up / push_down calls still to come

serVars == <<data, raw_python, call, result>>

effVars == <<target_widget, target_height, scroll_view, scroll_scale, scale_y, origin,
             scroll_x, scroll_y, do_scroll_y, velocity, should_absorb, last_touch_pos,
             anims, eff_last, absorbs_at_edge, inputs_left>>

plVars == <<player, permission_granted, pending_requests, update_playlist_scheduled,
            update_progress_scheduled, preview_icon, container_icon, preview_progress,
            container_progress, labels, rv_data, pl_last>>

smVars == <<screens, current, current_screen, bar, sm_last>>

themeVars == <<theme_style, bg_color, primary_color, secondary_color, accent_color,
               text_color, shadow_color, card_color, clearcolor, bar_icons,
               set_theme_scheduled, th_last>>

appVars == <<platform, smVars, themeVars>>

extVars == <<screen_extras, ext_last>>

ovVars == <<effect_class, ov_target_widget, sv_on_overscroll, overscroll, dispatched,
            velocity_update, ov_last>>

sheetVars == <<rv_disabled, overlay_children, sheet_props, sheet_anims, last_request,
               sheet_raised, pushes_left>>

vars == <<serVars, effVars, plVars, appVars, extVars, ovVars, sheetVars>>

\* what the actions of one part leave alone
notSerVars == <<effVars, plVars, appVars, extVars, ovVars, sheetVars>>
notEffVars == <<serVars, plVars, appVars, extVars, ovVars, sheetVars>>
notPlVars == <<serVars, effVars, appVars, extVars, ovVars, sheetVars>>
notAppVars == <<serVars, effVars, plVars, extVars, ovVars, sheetVars>>
notExtVars == <<serVars, effVars, plVars, appVars, ovVars, sheetVars>>
notOvVars == <<serVars, effVars, plVars, appVars, extVars, sheetVars>>
notSheetVars == <<serVars, effVars, plVars, appVars, extVars, ovVars>>

----------------------------------------------------------------------------
(* Values.  A value is a record [t |-> type name, v |-> payload].  Python  *)
(* dicts and Java maps carry a function from keys to values, Python lists  *)
(* and Java arrays a sequence.                                            *)

MaxNodes == 4       \* nodes (containers and leaves) of a generated value

Keys == {"a", "b"}

PyDict(m)  == [t |-> "dict", v |-> m]
PyList(s)  == [t |-> "list", v |-> s]
HashMap(m)   == [t |-> "java.util.HashMap", v |-> m]
ArrayList(s) == [t |-> "java.util.ArrayList", v |-> s]
Boolean(value) == [t |-> "java.lang.Boolean", v |-> value.v]
Long(value)    == [t |-> "java.lang.Long", v |-> value.v]
Double(value)  == [t |-> "java.lang.Double", v |-> value.v]
String(value)  == [t |-> "java.lang.String", v |-> value.v]

PyTrue   == [t |-> "bool", v |-> TRUE]
PyInt7   == [t |-> "int", v |-> 7]
PyFloat  == [t |-> "float", v |-> "2.5"]
PyStr    == [t |-> "str", v |-> "s"]
PyNone   == [t |-> "NoneType", v |-> "None"]
JavaFile == [t |-> "java.io.File", v |-> "f"]

PyLeaves == {PyTrue, PyInt7, PyFloat, PyStr, PyNone}
\* what a Java container hands to Python: converted primitives, other objects
JavaLeaves == {PyInt7, PyStr, JavaFile}

NoValue == [t |-> "unset", v |-> ""]
ExceptionValue == [t |-> "Exception", v |-> "raw serialization not supported"]

\* isinstance(value, cls); bool is a subclass of int
isinstance(value, cls) ==
    IF cls = "int" THEN value.t \in {"int", "bool"} ELSE value.t = cls

\* hasattr(value, name) for the two attributes the code asks for
hasattr(value, name) ==
    \/ name = "put" /\ value.t = "java.util.HashMap"
    \/ name = "iterator" /\ value.t = "java.util.ArrayList"

RECURSIVE ValsOfSize(_, _), SeqsOfSize(_, _), MapsOfSize(_, _, _)
\* the values of side "py" or "java" with exactly n nodes
ValsOfSize(side, n) ==
    (IF n = 1 THEN (IF side = "py" THEN PyLeaves ELSE JavaLeaves) ELSE {})
    \cup {IF side = "py" THEN PyList(s) ELSE ArrayList(s) : s \in SeqsOfSize(side, n - 1)}
    \cup {IF side = "py" THEN PyDict(m) ELSE HashMap(m) : m \in MapsOfSize(side, n - 1, Keys)}
SeqsOfSize(side, n) ==
    IF n = 0 THEN {<<>>}
    ELSE UNION {{<<h>> \o s : h \in ValsOfSize(side, k), s \in SeqsOfSize(side, n - k)} : k \in 1..n}
MapsOfSize(side, n, K) ==
    IF K = {} THEN (IF n = 0 THEN {<<>>} ELSE {})
    ELSE LET k == CHOOSE x \in K : TRUE
         IN  MapsOfSize(side, n, K \ {k})
             \cup UNION {{(k :> h) @@ m : h \in ValsOfSize(side, j),
                                         m \in MapsOfSize(side, n - j, K \ {k})} : j \in 1..n}

PyVals   == UNION {ValsOfSize("py", n) : n \in 1..MaxNodes}
JavaVals == UNION {ValsOfSize("java", n) : n \in 1..MaxNodes}

----------------------------------------------------------------------------
(* libs/serialize.py                                                       *)

RECURSIVE serialize_map_to_dict(_), serialize_array_to_list(_)
RECURSIVE serialize_dict_to_map(_), serialize_list_to_array(_)

serialize_map_to_dict(hash_map) ==
    PyDict([key \in DOMAIN hash_map.v |->
        LET value == hash_map.v[key] IN
        IF hasattr(value, "put") THEN serialize_map_to_dict(value)
        ELSE IF hasattr(value, "iterator") THEN serialize_array_to_list(value)
        ELSE value])

\* serialize_array_to_list without its branch for nested maps
serialize_array_to_list_NoMapBranch(array) ==
    PyList([i \in 1..Len(array.v) |->
        LET value == array.v[i] IN
        IF hasattr(value, "iterator") THEN serialize_array_to_list(value)
        ELSE value])

serialize_array_to_list(array) ==
    PyList([i \in 1..Len(array.v) |->
        LET value == array.v[i] IN
        IF hasattr(value, "iterator") THEN serialize_array_to_list(value)
        ELSE IF hasattr(value, "put") THEN serialize_map_to_dict(value)
        ELSE value])

\* serialize_dict_to_map without its branch for nested lists
serialize_dict_to_map_NoListBranch(dictionary) ==
    HashMap([key \in DOMAIN dictionary.v |->
        LET value == dictionary.v[key] IN
        IF isinstance(value, "dict") THEN serialize_dict_to_map(value)
        ELSE IF isinstance(value, "bool") THEN Boolean(value)
        ELSE value])

serialize_dict_to_map(dictionary) ==
    HashMap([key \in DOMAIN dictionary.v |->
        LET value == dictionary.v[key] IN
        IF isinstance(value, "dict") THEN serialize_dict_to_map(value)
        ELSE IF isinstance(value, "list") THEN serialize_list_to_array(value)
        ELSE IF isinstance(value, "bool") THEN Boolean(value)
        ELSE value])

\* list_element with the int test ahead of the bool test
list_element_IntBeforeBool(value) ==
    IF isinstance(value, "list") THEN serialize_list_to_array(value)
    ELSE IF isinstance(value, "dict") THEN serialize_dict_to_map(value)
    ELSE IF isinstance(value, "int") THEN Long(value)
    ELSE IF isinstance(value, "bool") THEN Boolean(value)
    ELSE IF isinstance(value, "float") THEN Double(value)
    ELSE IF isinstance(value, "str") THEN String(value)
    ELSE value

\* one element of serialize_list_to_array's loop (the raw_python loop of
\* serialize() has the same chain of branches)
list_element(value) ==
    IF isinstance(value, "list") THEN serialize_list_to_array(value)
    ELSE IF isinstance(value, "dict") THEN serialize_dict_to_map(value)
    ELSE IF isinstance(value, "bool") THEN Boolean(value)
    ELSE IF isinstance(value, "int") THEN Long(value)
    ELSE IF isinstance(value, "float") THEN Double(value)
    ELSE IF isinstance(value, "str") THEN String(value)
    ELSE value

serialize_list_to_array(list_) ==
    ArrayList([i \in 1..Len(list_.v) |-> list_element(list_.v[i])])

Returned(value) == [raised |-> FALSE, value |-> value]
Raised == [raised |-> TRUE, value |-> ExceptionValue]

serialize(d, raw) ==
    IF raw
    THEN IF ~isinstance(d, "list") THEN Raised
         ELSE Returned(PyList([i \in 1..Len(d.v) |->
                LET value == d.v[i] IN
                IF isinstance(value, "list") THEN serialize_list_to_array(value)
                ELSE IF isinstance(value, "dict") THEN serialize_dict_to_map(value)
                ELSE IF isinstance(value, "bool") THEN Boolean(value)
                ELSE IF isinstance(value, "int") THEN Long(value)
                ELSE IF isinstance(value, "float") THEN Double(value)
                ELSE IF isinstance(value, "str") THEN String(value)
                ELSE value]))
    ELSE IF isinstance(d, "dict") THEN Returned(serialize_dict_to_map(d))
    ELSE IF isinstance(d, "list") THEN Returned(serialize_list_to_array(d))
    ELSE IF hasattr(d, "iterator") THEN Returned(serialize_array_to_list(d))
    ELSE IF hasattr(d, "put") THEN Returned(serialize_map_to_dict(d))
    ELSE Returned(d)

SerIdle ==
    /\ raw_python = FALSE
    /\ call = ""
    /\ result = [raised |-> FALSE, value |-> NoValue]

\* no call is under way and none is modelled
SerBlank ==
    /\ data = NoValue
    /\ SerIdle

SerInit ==
    /\ data \in PyVals \cup JavaVals
    /\ SerIdle

CallSerialize ==
    /\ call = ""
    /\ \E raw \in BOOLEAN :
        /\ raw_python' = raw
        /\ result' = serialize(data, raw)
    /\ call' = "serialize"
    /\ UNCHANGED <<data, notSerVars>>

CallMapToDict ==
    /\ call = ""
    /\ data.t = "java.util.HashMap"
    /\ result' = Returned(serialize_map_to_dict(data))
    /\ call' = "serialize_map_to_dict"
    /\ UNCHANGED <<data, raw_python, notSerVars>>

CallArrayToList ==
    /\ call = ""
    /\ data.t = "java.util.ArrayList"
    /\ result' = Returned(serialize_array_to_list(data))
    /\ call' = "serialize_array_to_list"
    /\ UNCHANGED <<data, raw_python, notSerVars>>

CallDictToMap ==
    /\ call = ""
    /\ data.t = "dict"
    /\ result' = Returned(serialize_dict_to_map(data))
    /\ call' = "serialize_dict_to_map"
    /\ UNCHANGED <<data, raw_python, notSerVars>>

CallListToArray ==
    /\ call = ""
    /\ data.t = "list"
    /\ result' = Returned(serialize_list_to_array(data))
    /\ call' = "serialize_list_to_array"
    /\ UNCHANGED <<data, raw_python, notSerVars>>

RECURSIVE python_view(_)
\* a Java value as the bridge hands it to Python code: maps and arrays stay
\* Java objects, a boxed primitive arrives as the Python value it holds
python_view(j) ==
    IF j.t = "java.util.HashMap"
    THEN HashMap([k \in DOMAIN j.v |-> python_view(j.v[k])])
    ELSE IF j.t = "java.util.ArrayList"
    THEN ArrayList([i \in 1..Len(j.v) |-> python_view(j.v[i])])
    ELSE IF j.t = "java.lang.Boolean" THEN [t |-> "bool", v |-> j.v]
    ELSE IF j.t = "java.lang.Long" THEN [t |-> "int", v |-> j.v]
    ELSE IF j.t = "java.lang.Double" THEN [t |-> "float", v |-> j.v]
    ELSE IF j.t = "java.lang.String" THEN [t |-> "str", v |-> j.v]
    ELSE j

\* serialize(serialize(data)): the Java collection the first call returned is
\* given to serialize again
CallSerializeBack ==
    /\ call = "serialize"
    /\ ~raw_python
    /\ ~result.raised
    /\ result.value.t \in {"java.util.HashMap", "java.util.ArrayList"}
    /\ result' = serialize(python_view(result.value), FALSE)
    /\ call' = "serialize(serialize)"
    /\ UNCHANGED <<data, raw_python, notSerVars>>

SerNext ==
    \/ CallSerialize
    \/ CallMapToDict
    \/ CallArrayToList
    \/ CallDictToMap
    \/ CallListToArray
    \/ CallSerializeBack

----------------------------------------------------------------------------
(* Properties of libs/serialize.py                                         *)

RECURSIVE NoPythonCollection(_), JavaImage(_, _), PythonImage(_, _)

\* the Python primitive a java.lang box holds; any other value is itself
Unbox(j) ==
    IF j.t = "java.lang.Boolean" THEN [t |-> "bool", v |-> j.v]
    ELSE IF j.t = "java.lang.Long" THEN [t |-> "int", v |-> j.v]
    ELSE IF j.t = "java.lang.Double" THEN [t |-> "float", v |-> j.v]
    ELSE IF j.t = "java.lang.String" THEN [t |-> "str", v |-> j.v]
    ELSE j

\* no Python dict or list at any depth of j
NoPythonCollection(j) ==
    /\ j.t \notin {"dict", "list"}
    /\ j.t \in {"java.util.HashMap", "java.util.ArrayList"} =>
          \A k \in DOMAIN j.v : NoPythonCollection(j.v[k])

\* j is py with every dict a HashMap of the same keys and every list an
\* ArrayList of the same length and order, at every depth
JavaImage(py, j) ==
    IF py.t = "dict"
    THEN /\ j.t = "java.util.HashMap"
         /\ DOMAIN j.v = DOMAIN py.v
         /\ \A k \in DOMAIN py.v : JavaImage(py.v[k], j.v[k])
    ELSE IF py.t = "list"
    THEN /\ j.t = "java.util.ArrayList"
         /\ Len(j.v) = Len(py.v)
         /\ \A i \in 1..Len(py.v) : JavaImage(py.v[i], j.v[i])
    ELSE Unbox(j) = py

\* py is j with every map a dict of the same keys and every array a list of
\* the same length and order, at every depth, any other value unchanged
PythonImage(j, py) ==
    IF j.t = "java.util.HashMap"
    THEN /\ py.t = "dict"
         /\ DOMAIN py.v = DOMAIN j.v
         /\ \A k \in DOMAIN j.v : PythonImage(j.v[k], py.v[k])
    ELSE IF j.t = "java.util.ArrayList"
    THEN /\ py.t = "list"
         /\ Len(py.v) = Len(j.v)
         /\ \A i \in 1..Len(j.v) : PythonImage(j.v[i], py.v[i])
    ELSE py = j

\* C1: serialize(data) of a nested dict/list value returns a HashMap for a
\* dict and an ArrayList for a list, converts the nested dicts and lists at
\* every depth (no Python dict or list is left inside the result), keeps
\* each map's keys and each list's length and order.
C1_SerializeToJava ==
    (call = "serialize" /\ ~raw_python /\ data.t \in {"dict", "list"}) =>
        /\ ~result.raised
        /\ JavaImage(data, result.value)
        /\ NoPythonCollection(result.value)

\* a dict holding a non-empty list whose first element is a dict was converted
C1_Witness ==
    /\ call = "serialize" /\ ~raw_python /\ data.t = "dict"
    /\ \E k \in DOMAIN data.v :
          /\ data.v[k].t = "list"
          /\ Len(data.v[k].v) = 2
          /\ data.v[k].v[1].t = "dict"

\* C2: serialize_map_to_dict and serialize_array_to_list return a dict / a
\* list in which every nested map is a dict with the same keys and every
\* nested array a list of the same length and order, at every depth, and
\* every other value is the one that was in the input.
C2_SerializeToPython ==
    (call \in {"serialize_map_to_dict", "serialize_array_to_list"}) =>
        /\ ~result.raised
        /\ PythonImage(data, result.value)

\* an array holding a map that holds an array was converted
C2_Witness ==
    /\ call = "serialize_array_to_list"
    /\ \E i \in 1..Len(data.v) :
          /\ data.v[i].t = "java.util.HashMap"
          /\ \E k \in DOMAIN data.v[i].v : data.v[i].v[k].t = "java.util.ArrayList"

\* C3: serialize_list_to_array turns every bool element into a
\* java.lang.Boolean (never a Long), every other int into a java.lang.Long,
\* every float into a java.lang.Double, every str into a java.lang.String,
\* and adds any other non-collection element unchanged.
C3_ListElementTyping ==
    (call = "serialize_list_to_array") =>
        /\ Len(result.value.v) = Len(data.v)
        /\ \A i \in 1..Len(data.v) :
            LET e == data.v[i]
                r == result.value.v[i]
            IN  /\ e.t = "bool" => r.t = "java.lang.Boolean" /\ r.v = e.v
                /\ e.t = "int" => r.t = "java.lang.Long" /\ r.v = e.v
                /\ e.t = "float" => r.t = "java.lang.Double" /\ r.v = e.v
                /\ e.t = "str" => r.t = "java.lang.String" /\ r.v = e.v
                /\ e.t \notin {"bool", "int", "float", "str", "list", "dict"} => r = e

\* a list with a bool, an int and a None element was converted
C3_Witness ==
    /\ call = "serialize_list_to_array"
    /\ \E i, j, k \in 1..Len(data.v) :
          data.v[i].t = "bool" /\ data.v[j].t = "int" /\ data.v[k].t = "NoneType"

\* the element types serialize() converts in a raw_python list
SupportedInRawList(value) ==
    value.t \in {"list", "dict", "bool", "int", "float", "str"}

\* C4: serialize(data, raw_python=True) raises an Exception if data is not a
\* list, or if a data type within the list is not supported.
C4_RawRaisesOnUnsupported ==
    (call = "serialize" /\ raw_python) =>
        ((~(data.t = "list") \/ \E i \in 1..Len(data.v) : ~SupportedInRawList(data.v[i]))
            => result.raised)

\* the half of C4 the code keeps: a raw_python call raises exactly when data
\* is not a list
C4_RawRaisesIffNotList ==
    (call = "serialize" /\ raw_python) => (result.raised <=> data.t # "list")

RECURSIVE PrimitiveLeaves(_)
\* x is built from dicts and lists with bool, int, float and str leaves
PrimitiveLeaves(x) ==
    IF x.t \in {"dict", "list"}
    THEN \A k \in DOMAIN x.v : PrimitiveLeaves(x.v[k])
    ELSE x.t \in {"bool", "int", "float", "str"}

\* the part of C20 the code keeps: serialize(serialize(x)) is x, for every
\* dict or list x with bool, int, float and str leaves
C20_RoundTrip ==
    (call = "serialize(serialize)" /\ PrimitiveLeaves(data)) =>
        /\ ~result.raised
        /\ result.value = data

\* C20: serialize(serialize(x)) has the structure, keys, order and leaf
\* values of x, for every dict or list x with bool, int, float and str
\* leaves; and a primitive value gets the same Java representation as a dict
\* value (serialize_dict_to_map) and as a list element
\* (serialize_list_to_array).
C20_RoundTripSameRepresentation ==
    /\ C20_RoundTrip
    /\ (call = "serialize_dict_to_map") =>
          \A k \in DOMAIN data.v :
              data.v[k].t \in {"bool", "int", "float", "str"} =>
                  result.value.v[k] = serialize_list_to_array(PyList(<<data.v[k]>>)).v[1]

----------------------------------------------------------------------------
(* components/effects.py, StretchOverScrollStencil (scale_axis = "y")       *)

MaxInputs == 3        \* calls the scroll view makes in one run
ScrollRes == 2        \* scroll_x and scroll_y are k / ScrollRes, k in 0..ScrollRes

ScaleOne == 1000000   \* scale 1, in millionths
SvWidth == 2          \* scroll_view.width
SvHeight == 4         \* scroll_view.height; positions are in quarters of it

minimum_absorbed_velocity == 0
maximum_velocity == 10000
stretch_intensity == 16000      \* 0.016, in millionths
approx_normailzer == 200000     \* 2e5

Velocities == {-300, 0, 12000}
TargetHeights == {SvHeight - 1, SvHeight}
TouchPoints == {<<1, 0>>, <<1, 1>>, <<1, SvHeight>>, <<SvWidth + 1, 1>>}

Min(a, b) == IF a < b THEN a ELSE b
Max(a, b) == IF a > b THEN a ELSE b
Abs(a) == IF a < 0 THEN -a ELSE a

\* clamp that forgets its lower limit
clamp_NoFloor(value, min_val, max_val) == Min(value, max_val)

clamp(value, min_val, max_val) == Min(Max(value, min_val), max_val)

\* 1 - exp(-distance * exponential_scalar) in millionths, for a distance of
\* q quarters of the scroll view's height; exponential_scalar = e / (1 / 3)
OneMinusExp(q) ==
    CASE q = 0 -> 0
      [] q = 1 -> 869804
      [] q = 2 -> 983049
      [] q = 3 -> 997793
      [] q = 4 -> 999713
      [] q = 5 -> 999963
      [] q = 6 -> 999995
      [] OTHER -> 999999

is_top_or_bottom == scroll_y \in {ScrollRes, 0}

\* the test of set_scale_origin: FALSE when the content is smaller than the view
set_scale_origin == ~(target_height < SvHeight)

\* the origin set_scale_origin leaves behind
origin_after_set ==
    IF set_scale_origin
    THEN <<IF 2 * scroll_x <= ScrollRes THEN 0 ELSE SvWidth,
           IF 2 * scroll_y <= ScrollRes THEN 0 ELSE SvHeight>>
    ELSE origin

\* the scale absorb_impact animates to
absorb_scale(vel) ==
    LET sanitized_velocity == clamp(Abs(vel), 1, maximum_velocity)
    IN  ScaleOne + Min(sanitized_velocity * (ScaleOne \div approx_normailzer), ScaleOne \div 3)

\* Animation(y=to).start(scroll_scale): the animation starts from the value
\* the property has now
Animation(kind, to) == [kind |-> kind, from |-> scale_y, to |-> to, half |-> FALSE]

\* absorb_impact: its return value ignored, set_scale_origin is followed by
\* the start of the stretch animation, bound to reset_scale
absorb_impact ==
    /\ origin' = origin_after_set
    /\ anims' = Append(anims, Animation("init", absorb_scale(velocity')))

\* the test of on_value that leads to absorb_impact
absorbs(vel, flag) ==
    Abs(vel) > minimum_absorbed_velocity /\ flag

\* should_absorb_after that never clears the flag
should_absorb_after_NeverCleared(at_edge) == TRUE

\* _should_absorb after on_value
should_absorb_after(at_edge) == ~at_edge

\* on_value, with the scroll position and the velocity the scroll view has
\* when it runs
on_value(y, vel) ==
    /\ scroll_y' = y
    /\ velocity' = vel
    /\ IF target_widget
       THEN /\ scroll_view' = "sv"
            /\ scroll_scale' = "_internal_scale"
            /\ LET at_edge == y \in {ScrollRes, 0}
                   absorb == at_edge /\ absorbs(vel, should_absorb)
               IN  /\ IF absorb
                      THEN absorb_impact
                      ELSE UNCHANGED <<origin, anims>>
                   /\ should_absorb' = should_absorb_after(at_edge)
                   /\ eff_last' = [op |-> "on_value", absorbed |-> absorb,
                                   pos |-> y, vel |-> vel, raised |-> FALSE]
                   /\ absorbs_at_edge' = IF ~at_edge THEN 0
                                         ELSE IF absorb THEN absorbs_at_edge + 1
                                         ELSE absorbs_at_edge
       ELSE /\ UNCHANGED <<scroll_view, scroll_scale, origin, anims, should_absorb,
                           absorbs_at_edge>>
            /\ eff_last' = [op |-> "on_value", absorbed |-> FALSE,
                            pos |-> y, vel |-> vel, raised |-> FALSE]

collide_point(pos) ==
    /\ 0 <= pos[1] /\ pos[1] <= SvWidth
    /\ 0 <= pos[2] /\ pos[2] <= SvHeight

\* get_component for scale_axis "y": pos[-1]
get_component(pos) == pos[Len(pos)]

\* the scale convert_overscroll sets for a touch at pos
overscroll_scale(pos) ==
    LET q == Abs(get_component(pos) - get_component(last_touch_pos))
        linear_intensity == (stretch_intensity * q) \div SvHeight
        exponential_intensity == ((stretch_intensity \div 1000) * OneMinusExp(q)) \div 1000
    IN  ScaleOne + exponential_intensity + linear_intensity

\* convert_overscroll without its test of the velocity
convert_overscroll_AnyVelocity(pos) ==
    LET before == /\ scroll_view # "None"
                  /\ collide_point(pos)
                  /\ is_top_or_bottom
                  /\ do_scroll_y
    IN  /\ origin' = IF before THEN origin_after_set ELSE origin
        /\ IF before /\ set_scale_origin
           THEN IF last_touch_pos = <<>>
                THEN \* get_component(None) raises TypeError
                     /\ eff_last' = [op |-> "convert_overscroll", absorbed |-> FALSE,
                                     pos |-> scroll_y, vel |-> velocity, raised |-> TRUE]
                     /\ UNCHANGED scale_y
                ELSE /\ scale_y' = overscroll_scale(pos)
                     /\ eff_last' = [op |-> "convert_overscroll", absorbed |-> FALSE,
                                     pos |-> scroll_y, vel |-> velocity, raised |-> FALSE]
           ELSE /\ UNCHANGED scale_y
                /\ eff_last' = [op |-> "convert_overscroll", absorbed |-> FALSE,
                                pos |-> scroll_y, vel |-> velocity, raised |-> FALSE]

convert_overscroll(pos) ==
    LET before == /\ scroll_view # "None"
                  /\ collide_point(pos)
                  /\ is_top_or_bottom
                  /\ do_scroll_y
                  /\ velocity = 0
    IN  /\ origin' = IF before THEN origin_after_set ELSE origin
        /\ IF before /\ set_scale_origin
           THEN IF last_touch_pos = <<>>
                THEN \* get_component(None) raises TypeError
                     /\ eff_last' = [op |-> "convert_overscroll", absorbed |-> FALSE,
                                     pos |-> scroll_y, vel |-> velocity, raised |-> TRUE]
                     /\ UNCHANGED scale_y
                ELSE /\ scale_y' = overscroll_scale(pos)
                     /\ eff_last' = [op |-> "convert_overscroll", absorbed |-> FALSE,
                                     pos |-> scroll_y, vel |-> velocity, raised |-> FALSE]
           ELSE /\ UNCHANGED scale_y
                /\ eff_last' = [op |-> "convert_overscroll", absorbed |-> FALSE,
                                pos |-> scroll_y, vel |-> velocity, raised |-> FALSE]

\* reset_scale with its comparison turned round
reset_scale_Below(s, rest) ==
    IF scroll_scale = "None" THEN rest
    ELSE IF s < ScaleOne
    THEN Append(rest, [kind |-> "reset", from |-> s, to |-> ScaleOne, half |-> FALSE])
    ELSE rest

\* reset_scale, run with the scale s the finished animation has left
reset_scale(s, rest) ==
    IF scroll_scale = "None" THEN rest
    ELSE IF s > ScaleOne
    THEN Append(rest, [kind |-> "reset", from |-> s, to |-> ScaleOne, half |-> FALSE])
    ELSE rest

RemoveAt(seq, i) == SubSeq(seq, 1, i - 1) \o SubSeq(seq, i + 1, Len(seq))

EffIdle ==
    /\ target_widget = FALSE
    /\ target_height = SvHeight
    /\ scroll_view = "None"
    /\ scroll_scale = "None"
    /\ scale_y = ScaleOne
    /\ origin = <<0, 0>>
    /\ scroll_x = 0
    /\ scroll_y = ScrollRes
    /\ do_scroll_y = TRUE
    /\ velocity = 0
    /\ should_absorb = TRUE
    /\ last_touch_pos = <<>>
    /\ anims = <<>>
    /\ eff_last = [op |-> "none", absorbed |-> FALSE, pos |-> ScrollRes, vel |-> 0,
                   raised |-> FALSE]
    /\ absorbs_at_edge = 0
    /\ inputs_left = 0

EffInit ==
    /\ target_widget = FALSE
    /\ target_height \in TargetHeights
    /\ scroll_view = "None"
    /\ scroll_scale = "None"
    /\ scale_y = ScaleOne
    /\ origin = <<0, 0>>
    /\ scroll_x \in {0, ScrollRes}
    /\ scroll_y = ScrollRes
    /\ do_scroll_y \in BOOLEAN
    /\ velocity = 0
    /\ should_absorb = TRUE
    /\ last_touch_pos = <<>>
    /\ anims = <<>>
    /\ eff_last = [op |-> "none", absorbed |-> FALSE, pos |-> ScrollRes, vel |-> 0,
                   raised |-> FALSE]
    /\ absorbs_at_edge = 0
    /\ inputs_left = MaxInputs

\* the scroll view hands its content to the effect
SetTargetWidget ==
    /\ ~target_widget
    /\ target_widget' = TRUE
    /\ UNCHANGED <<target_height, scroll_view, scroll_scale, scale_y, origin, scroll_x,
                   scroll_y, do_scroll_y, velocity, should_absorb, last_touch_pos, anims,
                   eff_last, absorbs_at_edge, inputs_left, notEffVars>>

OnValue ==
    /\ inputs_left > 0
    /\ inputs_left' = inputs_left - 1
    /\ \E y \in 0..ScrollRes, vel \in Velocities : on_value(y, vel)
    /\ UNCHANGED <<target_widget, target_height, scale_y, scroll_x, do_scroll_y,
                   last_touch_pos, notEffVars>>

\* the scroll view records where a touch went down
TouchDown ==
    /\ inputs_left > 0
    /\ inputs_left' = inputs_left - 1
    /\ \E pos \in TouchPoints : collide_point(pos) /\ last_touch_pos' = pos
    /\ eff_last' = [op |-> "touch_down", absorbed |-> FALSE, pos |-> scroll_y,
                    vel |-> velocity, raised |-> FALSE]
    /\ UNCHANGED <<target_widget, target_height, scroll_view, scroll_scale, scale_y,
                   origin, scroll_x, scroll_y, do_scroll_y, velocity, should_absorb,
                   anims, absorbs_at_edge, notEffVars>>

ConvertOverscroll ==
    /\ inputs_left > 0
    /\ inputs_left' = inputs_left - 1
    /\ \E pos \in TouchPoints : convert_overscroll(pos)
    /\ UNCHANGED <<target_widget, target_height, scroll_view, scroll_scale, scroll_x,
                   scroll_y, do_scroll_y, velocity, should_absorb, last_touch_pos,
                   anims, absorbs_at_edge, notEffVars>>

\* a frame of a running animation
AnimationStep ==
    /\ \E i \in 1..Len(anims) :
        /\ ~anims[i].half
        /\ scale_y' = (anims[i].from + anims[i].to) \div 2
        /\ anims' = [anims EXCEPT ![i].half = TRUE]
    /\ UNCHANGED <<target_widget, target_height, scroll_view, scroll_scale, origin,
                   scroll_x, scroll_y, do_scroll_y, velocity, should_absorb,
                   last_touch_pos, eff_last, absorbs_at_edge, inputs_left, notEffVars>>

\* the last frame of an animation, and its on_complete
AnimationComplete ==
    /\ \E i \in 1..Len(anims) :
        /\ scale_y' = anims[i].to
        /\ anims' = IF anims[i].kind = "init"
                    THEN reset_scale(anims[i].to, RemoveAt(anims, i))
                    ELSE RemoveAt(anims, i)
    /\ UNCHANGED <<target_widget, target_height, scroll_view, scroll_scale, origin,
                   scroll_x, scroll_y, do_scroll_y, velocity, should_absorb,
                   last_touch_pos, eff_last, absorbs_at_edge, inputs_left, notEffVars>>

EffNext ==
    \/ SetTargetWidget
    \/ OnValue
    \/ TouchDown
    \/ ConvertOverscroll
    \/ AnimationStep
    \/ AnimationComplete

----------------------------------------------------------------------------
(* StretchOverScrollStencil: absorb_impact and convert_overscroll on their  *)
(* own, called in the states a drag leaves behind                          *)

MaxCalls == 2         \* calls made in one run

AllVelocities == {-12000, -1, 0, 1, 300, 10000, 10001}
TouchMoves == TouchPoints \cup {<<0, 1>>, <<2, 1>>, <<1, 2>>}

\* the scroll view has its effect, on_value has run with some position and
\* velocity, and a touch may have gone down
TouchInit ==
    /\ target_widget = TRUE
    /\ target_height \in TargetHeights
    /\ scroll_view = "sv"
    /\ scroll_scale = "_internal_scale"
    /\ scale_y = ScaleOne
    /\ origin = <<0, 0>>
    /\ scroll_x \in {0, ScrollRes}
    /\ scroll_y \in 0..ScrollRes
    /\ do_scroll_y \in BOOLEAN
    /\ velocity \in AllVelocities
    /\ should_absorb = ~is_top_or_bottom
    /\ last_touch_pos \in {<<>>} \cup {pos \in TouchMoves : collide_point(pos)}
    /\ anims = <<>>
    /\ eff_last = [op |-> "on_value", absorbed |-> FALSE, pos |-> scroll_y,
                   vel |-> velocity, raised |-> FALSE]
    /\ absorbs_at_edge = 0
    /\ inputs_left = MaxCalls

\* a call of absorb_impact
AbsorbImpact ==
    /\ inputs_left > 0
    /\ inputs_left' = inputs_left - 1
    /\ velocity' = velocity
    /\ absorb_impact
    /\ eff_last' = [op |-> "absorb_impact", absorbed |-> TRUE, pos |-> scroll_y,
                    vel |-> velocity, raised |-> FALSE]
    /\ UNCHANGED <<target_widget, target_height, scroll_view, scroll_scale, scale_y,
                   scroll_x, scroll_y, do_scroll_y, should_absorb, last_touch_pos,
                   absorbs_at_edge, notEffVars>>

\* the scroll view's on_touch_move hands the touch to convert_overscroll
TouchMove ==
    /\ inputs_left > 0
    /\ inputs_left' = inputs_left - 1
    /\ \E pos \in TouchMoves : convert_overscroll(pos)
    /\ UNCHANGED <<target_widget, target_height, scroll_view, scroll_scale, scroll_x,
                   scroll_y, do_scroll_y, velocity, should_absorb, last_touch_pos,
                   anims, absorbs_at_edge, notEffVars>>

TouchNext ==
    \/ AbsorbImpact
    \/ TouchMove
    \/ AnimationStep
    \/ AnimationComplete

----------------------------------------------------------------------------
(* components/effects.py, on_overscroll                                    *)

MaxOverscroll == 3    \* the overscroll is in -MaxOverscroll..MaxOverscroll

EffectClasses ==
    {"LowerScrollEffect", "HardStopScrollEffect", "LowerDampedScrollEffect",
     "HardStopDampedScrollEffect", "StretchOverScrollStencil"}

\* the classes whose on_overscroll starts with super().on_overscroll(*args)
Damped == {"LowerDampedScrollEffect", "HardStopDampedScrollEffect"}

Event(name, args) == [name |-> name, args |-> args]

\* the dispatches with the test of the value taking 0 for a negative value
dispatches_ZeroIsDown(value) ==
    IF sv_on_overscroll
    THEN <<Event("on_overscroll", <<value>>),
           IF value <= 0 THEN Event("on_overscroll_down", <<>>)
           ELSE Event("on_overscroll_up", <<>>)>>
    ELSE <<>>

\* what on_overscroll(instance, value) dispatches on sv
dispatches(value) ==
    IF sv_on_overscroll
    THEN <<Event("on_overscroll", <<value>>),
           IF value < 0 THEN Event("on_overscroll_down", <<>>)
           ELSE Event("on_overscroll_up", <<>>)>>
    ELSE <<>>

\* on_overscroll of the effect's class, called with the new overscroll
on_overscroll(value) ==
    /\ velocity_update' = (velocity_update \/ effect_class \in Damped)
    /\ IF ~ov_target_widget
       THEN \* None has no attribute parent
            /\ dispatched' = <<>>
            /\ ov_last' = [op |-> "on_overscroll", raised |-> TRUE]
       ELSE /\ dispatched' = dispatches(value)
            /\ ov_last' = [op |-> "on_overscroll", raised |-> FALSE]

OvIdle ==
    /\ overscroll = 0
    /\ dispatched = <<>>
    /\ velocity_update = FALSE
    /\ ov_last = [op |-> "none", raised |-> FALSE]

OvBlank ==
    /\ effect_class = "StretchOverScrollStencil"
    /\ ov_target_widget = FALSE
    /\ sv_on_overscroll = FALSE
    /\ OvIdle

OvInit ==
    /\ effect_class \in EffectClasses
    /\ ov_target_widget \in BOOLEAN
    /\ sv_on_overscroll \in BOOLEAN
    /\ OvIdle

\* the overscroll changes and the property calls on_overscroll
OverscrollChange ==
    /\ \E value \in (-MaxOverscroll)..MaxOverscroll :
        /\ value # overscroll
        /\ overscroll' = value
        /\ on_overscroll(value)
    /\ UNCHANGED <<effect_class, ov_target_widget, sv_on_overscroll, notOvVars>>

\* the Clock runs the velocity update of a damped effect
VelocityUpdate ==
    /\ velocity_update
    /\ velocity_update' = FALSE
    /\ ov_last' = [op |-> "update_velocity", raised |-> FALSE]
    /\ UNCHANGED <<effect_class, ov_target_widget, sv_on_overscroll, overscroll,
                   dispatched, notOvVars>>

OvNext ==
    \/ OverscrollChange
    \/ VelocityUpdate

----------------------------------------------------------------------------
(* features/player/presentation.py, PlayerScreen                           *)

MaxRequests == 2      \* permission requests waiting for their callback

NoIndex == -1         \* music_index=None
ProgressScale == 100  \* progress values are in hundredths

\* what get_all_audio_files() may return
TrackA == [title |-> "A", artist |-> "a", thumbnail |-> TRUE, data |-> "A.mp3"]
TrackB == [title |-> "B", artist |-> "b", thumbnail |-> FALSE, data |-> "B.mp3"]
AudioFileLists == {<<>>, <<TrackA>>, <<TrackA, TrackB>>, <<TrackB, TrackA>>}

\* what the player answers when update_progress asks it
PlaybackStates == {"STATE_IDLE", "STATE_BUFFERING", "STATE_READY", "STATE_ENDED"}
Durations == {-1, 0, 2}         \* -1: the duration is not known
Positions == {0, 1, 2}
Observations ==
    [available : BOOLEAN, index : {0, 1}, duration : Durations,
     position : Positions, state : PlaybackStates]

NoLabels ==
    [preview_title |-> "", container_title |-> "",
     preview_artist |-> "", container_artist |-> "",
     preview_thumbnail |-> "", container_thumbnail |-> ""]

Last(op, index, state, calls, raised) ==
    [op |-> op, index |-> index, state |-> state, calls |-> calls, raised |-> raised]

\* the labels update_player_ui leaves; it also sets both progress bars to 0
update_player_ui(music_data) ==
    [preview_title |-> music_data.title, container_title |-> music_data.title,
     preview_artist |-> music_data.artist, container_artist |-> music_data.artist,
     preview_thumbnail |-> music_data.thumbnail,
     container_thumbnail |-> music_data.thumbnail]

\* one entry of rv_data, built by update_playlist from audio file i
rv_entry(music, i) ==
    [title |-> music.title, artist |-> music.artist,
     thumbnail |-> IF music.thumbnail THEN "ext_cache/" \o music.title
                   ELSE "assets/images/thumbnail.png",
     on_release |-> i]

\* play without the test for a missing player
play_NoPlayerTest(music_index) ==
    /\ update_progress_scheduled' = TRUE
    /\ preview_icon' = "pause"
    /\ container_icon' = "pause"
    /\ pl_last' = Last("play", music_index, "", <<"prepare", "play">>, FALSE)
    /\ UNCHANGED <<labels, preview_progress, container_progress>>

play(music_index) ==
    IF music_index = NoIndex
    THEN IF player = "None"
         THEN /\ pl_last' = Last("play", music_index, "", <<>>, FALSE)
              /\ UNCHANGED <<update_progress_scheduled, preview_icon, container_icon,
                             labels, preview_progress, container_progress>>
         ELSE /\ update_progress_scheduled' = TRUE
              /\ preview_icon' = "pause"
              /\ container_icon' = "pause"
              /\ pl_last' = Last("play", music_index, "", <<"prepare", "play">>, FALSE)
              /\ UNCHANGED <<labels, preview_progress, container_progress>>
    ELSE IF player = "None"
         THEN \* update_progress.cancel(), then None has no seek_to_media_item_index
              /\ update_progress_scheduled' = FALSE
              /\ pl_last' = Last("play", music_index, "", <<>>, TRUE)
              /\ UNCHANGED <<preview_icon, container_icon, labels, preview_progress,
                             container_progress>>
         ELSE /\ labels' = update_player_ui(rv_data[music_index + 1])
              /\ preview_progress' = 0
              /\ container_progress' = 0
              /\ update_progress_scheduled' = TRUE
              /\ preview_icon' = "pause"
              /\ container_icon' = "pause"
              /\ pl_last' = Last("play", music_index, "",
                                 <<"seek_to_media_item_index", "play">>, FALSE)

pause ==
    IF player = "None"
    THEN /\ pl_last' = Last("pause", NoIndex, "", <<>>, TRUE)
         /\ UNCHANGED <<update_progress_scheduled, preview_icon, container_icon>>
    ELSE /\ update_progress_scheduled' = FALSE
         /\ preview_icon' = "play"
         /\ container_icon' = "play"
         /\ pl_last' = Last("pause", NoIndex, "", <<"pause">>, FALSE)

\* next and previous: the same steps around seek_to_next / seek_to_previous
seek(op, method) ==
    /\ IF player = "None"
       THEN /\ update_progress_scheduled' = FALSE
            /\ pl_last' = Last(op, NoIndex, "", <<>>, TRUE)
            /\ UNCHANGED <<preview_icon, container_icon>>
       ELSE /\ update_progress_scheduled' = TRUE
            /\ preview_icon' = "pause"
            /\ container_icon' = "pause"
            /\ pl_last' = Last(op, NoIndex, "", <<method, "play">>, FALSE)

\* request_audio_permission: request_permissions([...], callback)
request_audio_permission ==
    pending_requests' = pending_requests + 1

\* on_enter without the test of permission_granted
on_enter_AlwaysRequests ==
    /\ request_audio_permission
    /\ pl_last' = Last("on_enter", NoIndex, "", <<>>, FALSE)

on_enter ==
    /\ IF permission_granted
       THEN UNCHANGED pending_requests
       ELSE request_audio_permission
    /\ pl_last' = Last("on_enter", NoIndex, "", <<>>, FALSE)

\* the callback without the test of the results
callback_IgnoresResults(results) ==
    /\ pending_requests' = pending_requests - 1
    /\ permission_granted' = TRUE
    /\ update_playlist_scheduled' = TRUE
    /\ pl_last' = Last("callback", NoIndex, "", <<>>, FALSE)

\* any(results)
any(results) == \E i \in 1..Len(results) : results[i]

\* the callback of request_audio_permission
callback(results) ==
    /\ pending_requests' = pending_requests - 1
    /\ IF ~any(results)
       THEN UNCHANGED <<permission_granted, update_playlist_scheduled>>
       ELSE /\ permission_granted' = TRUE
            /\ update_playlist_scheduled' = TRUE
    /\ pl_last' = Last("callback", NoIndex, "", <<>>, FALSE)

\* the calls update_playlist makes for n audio files: the constructor when
\* create holds, media_item_from_uri for each file, and set_media_items and
\* prepare when there is a file
playlist_calls(create, n) ==
    (IF create THEN <<"ExoPlayer">> ELSE <<>>)
    \o [i \in 1..n |-> "media_item_from_uri"]
    \o (IF n = 0 THEN <<>> ELSE <<"set_media_items", "prepare">>)

playlist_labels(new_data) ==
    IF new_data = <<>>
    THEN [preview_title |-> "No music found",
          container_title |-> "No music found",
          preview_artist |-> "Empty",
          container_artist |-> "Empty",
          preview_thumbnail |-> "assets/images/thumbnail.png",
          container_thumbnail |-> "assets/images/thumbnail.png"]
    ELSE update_player_ui(new_data[1])

\* update_playlist without the test for an existing player
update_playlist_AlwaysCreates(audio_files) ==
    LET new_data == [i \in 1..Len(audio_files) |-> rv_entry(audio_files[i], i - 1)]
    IN  /\ update_playlist_scheduled' = FALSE
        /\ player' = "ExoPlayer"
        /\ rv_data' = new_data
        /\ labels' = playlist_labels(new_data)
        /\ pl_last' = Last("update_playlist", NoIndex, "",
                           playlist_calls(TRUE, Len(audio_files)), FALSE)
        /\ IF new_data = <<>>
           THEN UNCHANGED <<preview_progress, container_progress>>
           ELSE preview_progress' = 0 /\ container_progress' = 0

update_playlist(audio_files) ==
    LET new_data == [i \in 1..Len(audio_files) |-> rv_entry(audio_files[i], i - 1)]
    IN  /\ update_playlist_scheduled' = FALSE
        /\ player' = IF player = "None" THEN "ExoPlayer" ELSE player
        /\ rv_data' = new_data
        /\ labels' = playlist_labels(new_data)
        /\ pl_last' = Last("update_playlist", NoIndex, "",
                           playlist_calls(player = "None", Len(audio_files)), FALSE)
        /\ IF new_data = <<>>
           THEN UNCHANGED <<preview_progress, container_progress>>
           ELSE preview_progress' = 0 /\ container_progress' = 0

\* one run of update_progress, the player answering with obs
update_progress(obs) ==
    IF ~obs.available
    THEN /\ pl_last' = Last("update_progress", NoIndex, obs.state, <<>>, FALSE)
         /\ UNCHANGED <<update_progress_scheduled, preview_icon, container_icon,
                        labels, preview_progress, container_progress>>
    ELSE IF obs.index >= Len(rv_data)
    THEN \* rv.data[index] raises IndexError
         /\ pl_last' = Last("update_progress", NoIndex, obs.state, <<>>, TRUE)
         /\ UNCHANGED <<update_progress_scheduled, preview_icon, container_icon,
                        labels, preview_progress, container_progress>>
    ELSE /\ labels' = update_player_ui(rv_data[obs.index + 1])
         /\ pl_last' = Last("update_progress", NoIndex, obs.state, <<>>, FALSE)
         /\ IF obs.duration <= 0
            THEN /\ preview_progress' = 0
                 /\ container_progress' = 0
                 /\ UNCHANGED <<update_progress_scheduled, preview_icon, container_icon>>
            ELSE IF obs.state \in {"STATE_ENDED", "STATE_IDLE"}
            THEN /\ update_progress_scheduled' = FALSE
                 /\ preview_icon' = "play"
                 /\ container_icon' = "play"
                 /\ preview_progress' = 0
                 /\ container_progress' = 0
            ELSE /\ preview_progress' = (obs.position * ProgressScale) \div obs.duration
                 /\ container_progress' = (obs.position * ProgressScale) \div obs.duration
                 /\ UNCHANGED <<update_progress_scheduled, preview_icon, container_icon>>

PlInit ==
    /\ player = "None"
    /\ permission_granted = FALSE
    /\ pending_requests = 0
    /\ update_playlist_scheduled = FALSE
    /\ update_progress_scheduled = FALSE
    /\ preview_icon = "play"
    /\ container_icon = "play"
    /\ preview_progress = 0
    /\ container_progress = 0
    /\ labels = NoLabels
    /\ rv_data = <<>>
    /\ pl_last = Last("__init__", NoIndex, "", <<>>, FALSE)

OnEnter ==
    /\ pending_requests < MaxRequests
    /\ on_enter
    /\ UNCHANGED <<player, permission_granted, update_playlist_scheduled,
                   update_progress_scheduled, preview_icon, container_icon,
                   preview_progress, container_progress, labels, rv_data, notPlVars>>

PermissionCallback ==
    /\ pending_requests > 0
    /\ \E results \in BOOLEAN \X BOOLEAN : callback(results)
    /\ UNCHANGED <<player, update_progress_scheduled, preview_icon, container_icon,
                   preview_progress, container_progress, labels, rv_data, notPlVars>>

\* the Clock fires the event of update_playlist
UpdatePlaylist ==
    /\ update_playlist_scheduled
    /\ \E audio_files \in AudioFileLists : update_playlist(audio_files)
    /\ UNCHANGED <<permission_granted, pending_requests, update_progress_scheduled,
                   preview_icon, container_icon, notPlVars>>

\* the play button, or the on_release of an entry of the list
Play ==
    /\ \E music_index \in {NoIndex} \cup (0..Len(rv_data) - 1) : play(music_index)
    /\ UNCHANGED <<player, permission_granted, pending_requests,
                   update_playlist_scheduled, rv_data, notPlVars>>

Pause ==
    /\ pause
    /\ UNCHANGED <<player, permission_granted, pending_requests,
                   update_playlist_scheduled, preview_progress, container_progress,
                   labels, rv_data, notPlVars>>

NextTrack ==
    /\ seek("next", "seek_to_next")
    /\ UNCHANGED <<player, permission_granted, pending_requests,
                   update_playlist_scheduled, preview_progress, container_progress,
                   labels, rv_data, notPlVars>>

PreviousTrack ==
    /\ seek("previous", "seek_to_previous")
    /\ UNCHANGED <<player, permission_granted, pending_requests,
                   update_playlist_scheduled, preview_progress, container_progress,
                   labels, rv_data, notPlVars>>

\* the Clock fires the event of update_progress
UpdateProgress ==
    /\ update_progress_scheduled
    /\ \E obs \in Observations : update_progress(obs)
    /\ UNCHANGED <<player, permission_granted, pending_requests,
                   update_playlist_scheduled, rv_data, notPlVars>>

PlNext ==
    \/ OnEnter
    \/ PermissionCallback
    \/ UpdatePlaylist
    \/ Play
    \/ Pause
    \/ NextTrack
    \/ PreviousTrack
    \/ UpdateProgress

----------------------------------------------------------------------------
(* main.py, features/screenmanager.py, ui/theme.py                         *)

MaxScheduled == 2     \* set_theme runs waiting for the Clock

BackKey == 1073742106
KeyCodes == {BackKey, 27}

\* the names the application may set current to
ScreenNames == {"player screen", "home screen", "login screen"}

screen_config ==
    "player screen" :>
        [presentation |-> <<"features.player.presentation", "PlayerScreen">>]

\* colours, in thousandths
White == <<1000, 1000, 1000, 1000>>
Black == <<0, 0, 0, 1000>>
HashBlack == <<-1, -1, -1, -1>>     \* ColorProperty("#black")

bg_color_light == White
bg_color_dark == Black
card_color_light == White
card_color_dark == HashBlack
primary_color_light == Black
primary_color_dark == White
secondary_color_light == White      \* ColorProperty()
secondary_color_dark == White       \* ColorProperty()
accent_color_light == <<0, 0, 0, 50>>
accent_color_dark == <<1000, 1000, 1000, 80>>
shadow_color_light == <<0, 0, 0, 650>>
shadow_color_dark == <<1000, 1000, 1000, 650>>
text_color_light == <<247, 247, 255, 1000>>     \* "#3F3F41"
text_color_dark == White                        \* "#FFFFFF"

\* ScreenManager.has_screen without its search
has_screen_Never(name) == FALSE

\* ScreenManager.has_screen
has_screen(name) == \E i \in 1..Len(screens) : screens[i].name = name

\* ScreenManager.get_screen: the index of the first screen of that name
get_screen(all, name) ==
    CHOOSE i \in 1..Len(all) :
        all[i].name = name /\ \A j \in 1..(i - 1) : all[j].name # name

\* the instance on_current creates for value, after it has been given the app;
\* the screen carries the name it is registered under
presentation(value) ==
    [name |-> value, class |-> screen_config[value].presentation[2],
     app |-> "MusicPlayerApp"]

SmLast(op, value, created, raised) ==
    [op |-> op, value |-> value, created |-> created, raised |-> raised]

\* the handler of a change of current to value
on_current(op, value) ==
    /\ current' = value
    /\ bar' = IF value \in {"login screen", "signup screen"} /\ bar THEN FALSE ELSE bar
    /\ IF ~has_screen(value) /\ value \notin DOMAIN screen_config
       THEN \* screen_config[value] raises KeyError
            /\ sm_last' = SmLast(op, value, 0, TRUE)
            /\ UNCHANGED <<screens, current_screen>>
       ELSE LET create == ~has_screen(value)
                after == IF create THEN Append(screens, presentation(value)) ELSE screens
            IN  /\ screens' = after
                /\ current_screen' = get_screen(after, value)
                /\ sm_last' = SmLast(op, value, IF create THEN 1 ELSE 0, FALSE)

\* ScreenManager.previous: the name of the screen before the current one
previous ==
    screens[((current_screen + Len(screens) - 2) % Len(screens)) + 1].name

_go_back(key) ==
    IF key # BackKey
    THEN /\ sm_last' = SmLast("_go_back", "", 0, FALSE)
         /\ UNCHANGED <<screens, current, current_screen, bar>>
    ELSE IF current_screen = 0
    THEN \* screens.index(None) raises ValueError
         /\ sm_last' = SmLast("_go_back", "", 0, TRUE)
         /\ UNCHANGED <<screens, current, current_screen, bar>>
    ELSE IF current_screen = 1 /\ platform = "android"
    THEN /\ sm_last' = SmLast("moveTaskToBack", "", 0, FALSE)
         /\ UNCHANGED <<screens, current, current_screen, bar>>
    ELSE IF previous # current
    THEN on_current("_go_back", previous)
    ELSE /\ sm_last' = SmLast("_go_back", current, 0, FALSE)
         /\ UNCHANGED <<screens, current, current_screen, bar>>

\* on_theme_style, decorated with @mainthread: the Clock is given one more run
\* of set_theme
on_theme_style ==
    set_theme_scheduled' = set_theme_scheduled + 1

\* set_theme that takes the card colour of the light theme in both themes
set_theme_CardLight ==
    /\ bg_color' = IF theme_style = "Light" THEN bg_color_light ELSE bg_color_dark
    /\ primary_color' = IF theme_style = "Light" THEN primary_color_light
                        ELSE primary_color_dark
    /\ secondary_color' = IF theme_style = "Light" THEN secondary_color_light
                          ELSE secondary_color_dark
    /\ accent_color' = IF theme_style = "Light" THEN accent_color_light
                       ELSE accent_color_dark
    /\ text_color' = IF theme_style = "Light" THEN text_color_light ELSE text_color_dark
    /\ shadow_color' = IF theme_style = "Light" THEN shadow_color_light
                       ELSE shadow_color_dark
    /\ card_color' = card_color_light
    /\ clearcolor' = bg_color'

set_theme ==
    /\ bg_color' = IF theme_style = "Light" THEN bg_color_light ELSE bg_color_dark
    /\ primary_color' = IF theme_style = "Light" THEN primary_color_light
                        ELSE primary_color_dark
    /\ secondary_color' = IF theme_style = "Light" THEN secondary_color_light
                          ELSE secondary_color_dark
    /\ accent_color' = IF theme_style = "Light" THEN accent_color_light
                       ELSE accent_color_dark
    /\ text_color' = IF theme_style = "Light" THEN text_color_light ELSE text_color_dark
    /\ shadow_color' = IF theme_style = "Light" THEN shadow_color_light
                       ELSE shadow_color_dark
    /\ card_color' = IF theme_style = "Light" THEN card_color_light ELSE card_color_dark
    /\ clearcolor' = bg_color'

\* the binding of bg_color that MusicPlayerApp.__init__ makes on Android
bar_icons_for(style) == IF style = "Light" THEN "black" ELSE "white"

\* MusicPlayerApp.__init__ has made the ThemeManager, build() the screen manager
AppIdle ==
    /\ screens = <<>>
    /\ current = "None"
    /\ current_screen = 0
    /\ sm_last = SmLast("__init__", "", 0, FALSE)
    /\ theme_style = "Light"
    /\ bg_color = White /\ primary_color = White /\ secondary_color = White
    /\ accent_color = White /\ text_color = White /\ shadow_color = White
    /\ card_color = White
    /\ clearcolor = Black
    /\ set_theme_scheduled = 1
    /\ th_last = "__init__"

AppBlank ==
    /\ AppIdle
    /\ platform = "android"
    /\ bar = FALSE
    /\ bar_icons = "black"

AppInit ==
    /\ AppIdle
    /\ platform \in {"android", "linux"}
    /\ bar \in BOOLEAN
    /\ bar_icons = IF platform = "android" THEN "black" ELSE "none"

\* sm.current = value; the property calls on_current when the value changes
Navigate ==
    /\ \E value \in ScreenNames :
        /\ value # current
        /\ on_current("on_current", value)
    /\ UNCHANGED <<platform, themeVars, notAppVars>>

\* Window's on_keyboard
GoBack ==
    /\ \E key \in KeyCodes : _go_back(key)
    /\ UNCHANGED <<platform, themeVars, notAppVars>>

\* theme_cls.theme_style = style; the property calls on_theme_style when the
\* value changes
SetThemeStyle ==
    /\ set_theme_scheduled < MaxScheduled
    /\ \E style \in {"Light", "Dark"} :
        /\ style # theme_style
        /\ theme_style' = style
    /\ on_theme_style
    /\ th_last' = "on_theme_style"
    /\ UNCHANGED <<bg_color, primary_color, secondary_color, accent_color, text_color,
                   shadow_color, card_color, clearcolor, bar_icons,
                   platform, smVars, notAppVars>>

\* the Clock runs a scheduled set_theme; a change of bg_color reaches the
\* binding of main.py
RunSetTheme ==
    /\ set_theme_scheduled > 0
    /\ set_theme_scheduled' = set_theme_scheduled - 1
    /\ set_theme
    /\ bar_icons' = IF platform = "android" /\ bg_color' # bg_color
                    THEN bar_icons_for(theme_style) ELSE bar_icons
    /\ th_last' = "set_theme"
    /\ UNCHANGED <<theme_style, platform, smVars, notAppVars>>

AppNext ==
    \/ Navigate
    \/ GoBack
    \/ SetThemeStyle
    \/ RunSetTheme

----------------------------------------------------------------------------
(* features/basescreen.py, BaseScreen                                      *)

ExtraKeys == {"k1", "k2"}
ExtraValues == {"v1", "v2", "None"}
\* the screens whose code calls the static methods
Callers == {"PlayerScreen", "HomeScreen"}
\* the arguments of a get_extra call: the key alone, or the key and a default
GetArgs == {<<k>> : k \in ExtraKeys} \cup (ExtraKeys \X {"d", "None"})

ExtLast(op, caller, key, returned, raised) ==
    [op |-> op, caller |-> caller, key |-> key, returned |-> returned,
     raised |-> raised]

\* d without key
Without(d, key) == [k \in DOMAIN d \ {key} |-> d[k]]

put_extra(caller, key, value) ==
    /\ screen_extras' = (key :> value) @@ screen_extras
    /\ ext_last' = ExtLast("put_extra", caller, key, "None", FALSE)

\* dict.get(key, default)
dict_get(d, key, default) == IF key \in DOMAIN d THEN d[key] ELSE default

\* get_extra(key, default=None)
get_extra(caller, args) ==
    LET key == args[1]
        default == IF Len(args) = 2 THEN args[2] ELSE "None"
    IN  /\ ext_last' = ExtLast("get_extra", caller, key,
                               dict_get(screen_extras, key, default), FALSE)
        /\ UNCHANGED screen_extras

\* remove_extra that stores None in place of the key's value
remove_extra_StoresNone(caller, key) ==
    IF key \in DOMAIN screen_extras
    THEN /\ screen_extras' = (key :> "None") @@ screen_extras
         /\ ext_last' = ExtLast("remove_extra", caller, key, "None", FALSE)
    ELSE /\ ext_last' = ExtLast("remove_extra", caller, key, "None", TRUE)
         /\ UNCHANGED screen_extras

\* remove_extra: del screen_extras[key] raises KeyError for a missing key
remove_extra(caller, key) ==
    IF key \in DOMAIN screen_extras
    THEN /\ screen_extras' = Without(screen_extras, key)
         /\ ext_last' = ExtLast("remove_extra", caller, key, "None", FALSE)
    ELSE /\ ext_last' = ExtLast("remove_extra", caller, key, "None", TRUE)
         /\ UNCHANGED screen_extras

ExtIdle ==
    ext_last = ExtLast("none", "", "", "None", FALSE)

ExtBlank ==
    /\ screen_extras = <<>>
    /\ ExtIdle

\* the dictionary holds what earlier screens have put into it
ExtInit ==
    /\ screen_extras \in UNION {[K -> ExtraValues] : K \in SUBSET ExtraKeys}
    /\ ExtIdle

PutExtra ==
    /\ \E caller \in Callers, key \in ExtraKeys, value \in ExtraValues :
            put_extra(caller, key, value)
    /\ UNCHANGED notExtVars

GetExtra ==
    /\ \E caller \in Callers, args \in GetArgs : get_extra(caller, args)
    /\ UNCHANGED notExtVars

RemoveExtra ==
    /\ \E caller \in Callers, key \in ExtraKeys : remove_extra(caller, key)
    /\ UNCHANGED notExtVars

ExtNext ==
    \/ PutExtra
    \/ GetExtra
    \/ RemoveExtra

----------------------------------------------------------------------------
(* features/player/presentation.py, push_up and push_down of PlayerScreen  *)

MaxPushes == 3        \* push_up / push_down calls in one run

\* Animation(...).start(widget): the animation ends with the widget at `to`
\* and then calls on_complete; it does not stop an animation already running
\* on the widget
SheetAnimation(widget, to, on_complete) ==
    [widget |-> widget, to |-> to, on_complete |-> on_complete]

push_up_animations ==
    <<SheetAnimation("play_list_container", "y=height", "none"),
      SheetAnimation("overlay", "bg_color=[1,1,1,1]", "_add_overlay_button"),
      SheetAnimation("player_container", "raised, opacity=1", "none"),
      SheetAnimation("player_preview", "below, opacity=0", "none")>>

push_down_animations ==
    <<SheetAnimation("play_list_container", "y=self.height-height", "none"),
      SheetAnimation("overlay", "bg_color=[0,0,0,0]", "_remove_overlay_button"),
      SheetAnimation("player_container", "below, opacity=0", "none"),
      SheetAnimation("player_preview", "y=0, opacity=1", "none")>>

push_up ==
    /\ sheet_anims' = sheet_anims \o push_up_animations
    /\ last_request' = "push_up"
    /\ UNCHANGED <<rv_disabled, overlay_children, sheet_props, sheet_raised>>

push_down ==
    /\ sheet_anims' = sheet_anims \o push_down_animations
    /\ rv_disabled' = FALSE
    /\ last_request' = "push_down"
    /\ UNCHANGED <<overlay_children, sheet_props, sheet_raised>>

_add_overlay_button ==
    /\ rv_disabled' = TRUE
    /\ overlay_children' = <<"CustomButton">> \o overlay_children
    /\ UNCHANGED sheet_raised

\* overlay.remove_widget(overlay.children[0]); IndexError without a child
_remove_overlay_button ==
    IF overlay_children = <<>>
    THEN /\ sheet_raised' = TRUE
         /\ UNCHANGED <<rv_disabled, overlay_children>>
    ELSE /\ overlay_children' = Tail(overlay_children)
         /\ UNCHANGED <<rv_disabled, sheet_raised>>

SheetIdle ==
    /\ rv_disabled = FALSE
    /\ overlay_children = <<>>
    /\ sheet_props = [play_list_container |-> "y=self.height-height",
                      overlay |-> "bg_color=[0,0,0,0]",
                      player_container |-> "below, opacity=0",
                      player_preview |-> "y=0, opacity=1"]
    /\ sheet_anims = <<>>
    /\ last_request = "none"
    /\ sheet_raised = FALSE

\* no call of push_up or push_down is modelled
SheetBlank ==
    /\ SheetIdle
    /\ pushes_left = 0

SheetInit ==
    /\ SheetIdle
    /\ pushes_left = MaxPushes

PushUp ==
    /\ pushes_left > 0
    /\ pushes_left' = pushes_left - 1
    /\ push_up
    /\ UNCHANGED notSheetVars

PushDown ==
    /\ pushes_left > 0
    /\ pushes_left' = pushes_left - 1
    /\ push_down
    /\ UNCHANGED notSheetVars

\* the last frame of the animation that was started first, and its on_complete
SheetAnimationComplete ==
    /\ sheet_anims # <<>>
    /\ LET anim == Head(sheet_anims)
       IN  /\ sheet_props' = [sheet_props EXCEPT ![anim.widget] = anim.to]
           /\ CASE anim.on_complete = "_add_overlay_button" -> _add_overlay_button
                [] anim.on_complete = "_remove_overlay_button" -> _remove_overlay_button
                [] OTHER -> UNCHANGED <<rv_disabled, overlay_children, sheet_raised>>
    /\ sheet_anims' = Tail(sheet_anims)
    /\ UNCHANGED <<last_request, pushes_left, notSheetVars>>

SheetNext ==
    \/ PushUp
    \/ PushDown
    \/ SheetAnimationComplete

----------------------------------------------------------------------------
(* Properties of StretchOverScrollStencil                                  *)

\* C5: when the content is smaller than the scroll view, the scroll view is
\* not stretched: the scale stays at 1 after any sequence of on_value and
\* convert_overscroll calls.
C5_SmallContentNotStretched ==
    target_height < SvHeight => scale_y = ScaleOne

\* the part of C5 the code keeps: convert_overscroll leaves the scale of a
\* scroll view with smaller content alone
C5_ConvertLeavesSmallContent ==
    [][(target_height < SvHeight /\ ConvertOverscroll) => scale_y' = scale_y]_vars

\* C6: between two absorb_impact calls there is an on_value call with the
\* scroll position neither 0 nor 1, and absorb_impact is called only with
\* the position 0 or 1 and |velocity| above minimum_absorbed_velocity.
C6_AbsorbOncePerEdge ==
    /\ absorbs_at_edge <= 1
    /\ eff_last.absorbed =>
          /\ eff_last.op = "on_value"
          /\ eff_last.pos \in {0, ScrollRes}
          /\ Abs(eff_last.vel) > minimum_absorbed_velocity

\* after an absorb_impact, an on_value at the edge with a velocity did not
\* absorb again
C6_Witness ==
    /\ absorbs_at_edge = 1
    /\ eff_last.op = "on_value"
    /\ ~eff_last.absorbed
    /\ eff_last.pos \in {0, ScrollRes}
    /\ Abs(eff_last.vel) > minimum_absorbed_velocity

\* C7: a stretch started by absorb_impact is followed, when its animation
\* completes, by reset_scale and its animation back to 1: while a stretch
\* animation runs the scale will be 1 again, and once the scroll view makes
\* no more calls the scale returns to 1 and stays there.
C7_SpringBack ==
    /\ (\E i \in 1..Len(anims) : anims[i].kind = "init") ~> (scale_y = ScaleOne)
    /\ (inputs_left = 0 /\ \E i \in 1..Len(anims) : anims[i].kind = "init")
          ~> [](scale_y = ScaleOne)

\* the last call absorbed the velocity, its animations are over and the scale
\* is 1 again
C7_Witness ==
    /\ eff_last.op = "on_value" /\ eff_last.absorbed
    /\ inputs_left = 0
    /\ anims = <<>>
    /\ scale_y = ScaleOne

\* C16: absorb_impact clamps the absolute velocity into
\* [1, maximum_velocity] and animates to 1 + min(clamped / approx_normailzer,
\* 1/3): the target is above 1 and at most 1 + 1/3 for every velocity, 0 and
\* velocities above maximum_velocity included.
C16_AbsorbTargetInRange ==
    /\ [][AbsorbImpact =>
            LET sanitized_velocity == clamp(Abs(velocity), 1, maximum_velocity)
                to == anims'[Len(anims')].to
            IN  /\ 1 <= sanitized_velocity /\ sanitized_velocity <= maximum_velocity
                /\ Abs(velocity) \in 1..maximum_velocity => sanitized_velocity = Abs(velocity)
                /\ anims'[Len(anims')].kind = "init"
                /\ to = ScaleOne + Min(sanitized_velocity * (ScaleOne \div approx_normailzer),
                                       ScaleOne \div 3)]_vars
    /\ [](\A i \in 1..Len(anims) :
            anims[i].kind = "init" =>
                /\ anims[i].to > ScaleOne
                /\ 3 * (anims[i].to - ScaleOne) <= ScaleOne)

\* absorb_impact ran with the velocity 0 and animates to the scale of the
\* velocity 1
C16_Witness ==
    /\ eff_last.op = "absorb_impact"
    /\ velocity = 0
    /\ anims # <<>>
    /\ anims[Len(anims)].kind = "init"
    /\ anims[Len(anims)].to = ScaleOne + ScaleOne \div approx_normailzer

\* the conditions under which convert_overscroll sets the scale
ConvertConditions(pos) ==
    /\ scroll_view # "None"
    /\ collide_point(pos)
    /\ scroll_y \in {0, ScrollRes}
    /\ do_scroll_y
    /\ velocity = 0
    /\ ~(target_height < SvHeight)

C18_OverscrollDispatch ==
    (ov_last.op = "on_overscroll" /\ ~ov_last.raised) =>
        IF sv_on_overscroll
        THEN /\ Len(dispatched) = 2
             /\ dispatched[1] = Event("on_overscroll", <<overscroll>>)
             /\ dispatched[2].name \in {"on_overscroll_down", "on_overscroll_up"}
             /\ dispatched[2].name = "on_overscroll_down" <=> overscroll < 0
        ELSE dispatched = <<>>

\* the overscroll of a damped effect came back to 0 and "on_overscroll_up"
\* followed "on_overscroll"
C18_Witness ==
    /\ effect_class = "LowerDampedScrollEffect"
    /\ ov_last.op = "on_overscroll" /\ ~ov_last.raised
    /\ overscroll = 0
    /\ Len(dispatched) = 2 /\ dispatched[2].name = "on_overscroll_up"

----------------------------------------------------------------------------
(* Properties of PlayerScreen                                              *)

\* C8: once update_progress runs while the player is in STATE_ENDED or
\* STATE_IDLE, the periodic update is cancelled, both play buttons show
\* "play" and both progress bars are 0 (and no run follows until play, next
\* or previous starts the event again).
C8_ProgressStopsAtTerminalState ==
    (/\ pl_last.op = "update_progress" /\ ~pl_last.raised
     /\ pl_last.state \in {"STATE_ENDED", "STATE_IDLE"}) =>
        /\ ~update_progress_scheduled
        /\ preview_icon = "play" /\ container_icon = "play"
        /\ preview_progress = 0 /\ container_progress = 0

\* the part of C8 the code keeps: a run that finds the current media item
\* available and a duration above 0 in a terminal state stops the update
C8_ProgressStopsWhenDurationKnown ==
    [][\A obs \in Observations :
        (/\ update_progress_scheduled
         /\ update_progress(obs)
         /\ obs.available /\ obs.index < Len(rv_data) /\ obs.duration > 0
         /\ obs.state \in {"STATE_ENDED", "STATE_IDLE"})
        => (/\ ~update_progress_scheduled'
            /\ preview_icon' = "play" /\ container_icon' = "play"
            /\ preview_progress' = 0 /\ container_progress' = 0)]_vars

\* C9: play() with no music index and no player changes neither the progress
\* timer nor the icons of the play buttons; with a player it prepares and
\* plays it, starts the progress timer and sets both icons to "pause".
C9_PlayWithoutIndex ==
    [][play(NoIndex) =>
        IF player = "None"
        THEN UNCHANGED <<player, update_progress_scheduled, preview_icon, container_icon,
                         preview_progress, container_progress, labels, rv_data>>
        ELSE /\ pl_last'.calls = <<"prepare", "play">>
             /\ update_progress_scheduled'
             /\ preview_icon' = "pause" /\ container_icon' = "pause"]_vars

\* play() ran with no index and no player, while a permission request waits
C9_Witness ==
    /\ pl_last.op = "play" /\ pl_last.index = NoIndex /\ pl_last.calls = <<>>
    /\ player = "None"
    /\ pending_requests > 0

\* C10: on_enter requests the permissions if and only if permission_granted
\* is False; permission_granted, once True, stays True, and no later on_enter
\* requests the permissions.
C10_RequestOnlyWhileNotGranted ==
    /\ [][on_enter =>
            /\ ~permission_granted => pending_requests' = pending_requests + 1
            /\ permission_granted => pending_requests' = pending_requests]_vars
    /\ [][permission_granted => permission_granted']_vars

\* on_enter ran after the permission was granted and requested nothing
C10_Witness ==
    /\ pl_last.op = "on_enter"
    /\ permission_granted
    /\ pending_requests = 0

C19_RvEnabledAfterPushDown ==
    (last_request = "push_down" /\ sheet_anims = <<>>) => ~rv_disabled

\* the part of C19 the code keeps: push_down itself enables the playlist
C19_PushDownEnablesRv ==
    [][push_down => ~rv_disabled']_vars

----------------------------------------------------------------------------
(* Properties of AppScreenManager and ThemeManager                         *)

\* C12: when current is set to a name of screen_config that has no screen,
\* exactly one presentation is created, given the running app and added;
\* when a screen of that name exists none is created; so there is never more
\* than one screen of a name.
C12_LazyAtMostOnce ==
    /\ [][\A value \in DOMAIN screen_config :
            (value # current /\ on_current("on_current", value)) =>
                IF has_screen(value)
                THEN screens' = screens /\ sm_last'.created = 0
                ELSE /\ sm_last'.created = 1
                     /\ Len(screens') = Len(screens) + 1
                     /\ SubSeq(screens', 1, Len(screens)) = screens
                     /\ screens'[Len(screens')].name = value
                     /\ screens'[Len(screens')].app = "MusicPlayerApp"]_vars
    /\ [](\A i, j \in 1..Len(screens) : screens[i].name = screens[j].name => i = j)

\* the player screen was shown again after another name had been set, and no
\* second instance was made
C12_Witness ==
    /\ sm_last.op = "on_current" /\ sm_last.value = "player screen"
    /\ sm_last.created = 0 /\ ~sm_last.raised
    /\ Len(screens) = 1

\* the colours of the theme are those of theme_style
ThemeApplied ==
    /\ bg_color = IF theme_style = "Light" THEN bg_color_light ELSE bg_color_dark
    /\ primary_color = IF theme_style = "Light" THEN primary_color_light
                       ELSE primary_color_dark
    /\ secondary_color = IF theme_style = "Light" THEN secondary_color_light
                         ELSE secondary_color_dark
    /\ accent_color = IF theme_style = "Light" THEN accent_color_light
                      ELSE accent_color_dark
    /\ text_color = IF theme_style = "Light" THEN text_color_light ELSE text_color_dark
    /\ shadow_color = IF theme_style = "Light" THEN shadow_color_light
                      ELSE shadow_color_dark
    /\ card_color = IF theme_style = "Light" THEN card_color_light ELSE card_color_dark
    /\ clearcolor = bg_color

----------------------------------------------------------------------------
(* Properties of BaseScreen                                                *)

\* C14: the extras are one store shared by the screens: put_extra(k, v) makes
\* k hold v, and k keeps its value until a put_extra or remove_extra of k by
\* any screen; get_extra returns the value k holds, or the default (None when
\* omitted) when k is absent, and leaves the store alone; remove_extra(k) of
\* a key that is present takes k out, so that get_extra then returns the
\* default.
C14_SharedStore ==
    /\ [][\A caller \in Callers, key \in ExtraKeys, value \in ExtraValues :
            put_extra(caller, key, value) =>
                /\ key \in DOMAIN screen_extras' /\ screen_extras'[key] = value
                /\ Without(screen_extras', key) = Without(screen_extras, key)]_vars
    /\ [][\A caller \in Callers, args \in GetArgs :
            get_extra(caller, args) =>
                /\ screen_extras' = screen_extras
                /\ ext_last'.returned =
                      IF args[1] \in DOMAIN screen_extras THEN screen_extras[args[1]]
                      ELSE IF Len(args) = 2 THEN args[2] ELSE "None"]_vars
    /\ [][\A caller \in Callers, key \in ExtraKeys :
            (key \in DOMAIN screen_extras /\ remove_extra(caller, key)) =>
                /\ key \notin DOMAIN screen_extras'
                /\ screen_extras' = Without(screen_extras, key)
                /\ \A d \in {"d", "None"} :
                      dict_get(screen_extras', key, d) = d]_vars
    /\ [][\A key \in DOMAIN screen_extras :
            (key \notin DOMAIN screen_extras' \/ screen_extras'[key] # screen_extras[key])
                => /\ ext_last'.op \in {"put_extra", "remove_extra"}
                   /\ ext_last'.key = key]_vars

\* the home screen asked for a key that is not in the store and got its
\* default, while the other key holds a value
C14_Witness ==
    /\ ext_last.op = "get_extra" /\ ext_last.caller = "HomeScreen"
    /\ ext_last.key = "k1" /\ ext_last.returned = "d"
    /\ DOMAIN screen_extras = {"k2"}

----------------------------------------------------------------------------
(* Specifications                                                          *)

InitSerialize == SerInit /\ EffIdle /\ PlInit /\ AppBlank /\ ExtBlank /\ OvBlank /\ SheetBlank
SpecSerialize == InitSerialize /\ [][SerNext]_vars

InitStretch == EffInit /\ SerBlank /\ PlInit /\ AppBlank /\ ExtBlank /\ OvBlank /\ SheetBlank
SpecStretch == InitStretch /\ [][EffNext]_vars

\* the Clock runs every started animation to its end
SpecStretchFair == SpecStretch /\ WF_vars(AnimationComplete)

InitPlayer == PlInit /\ SerBlank /\ EffIdle /\ AppBlank /\ ExtBlank /\ OvBlank /\ SheetBlank
SpecPlayer == InitPlayer /\ [][PlNext]_vars

InitApp == AppInit /\ SerBlank /\ EffIdle /\ PlInit /\ ExtBlank /\ OvBlank /\ SheetBlank
SpecApp == InitApp /\ [][AppNext]_vars

\* the Clock makes every run it was given
SpecAppFair == SpecApp /\ WF_vars(RunSetTheme)

InitExtras == ExtInit /\ SerBlank /\ EffIdle /\ PlInit /\ AppBlank /\ OvBlank /\ SheetBlank
SpecExtras == InitExtras /\ [][ExtNext]_vars

InitTouch == TouchInit /\ SerBlank /\ PlInit /\ AppBlank /\ ExtBlank /\ OvBlank /\ SheetBlank
SpecTouch == InitTouch /\ [][TouchNext]_vars

InitOverscroll == OvInit /\ SerBlank /\ EffIdle /\ PlInit /\ AppBlank /\ ExtBlank /\ SheetBlank
SpecOverscroll == InitOverscroll /\ [][OvNext]_vars

InitSheet == SheetInit /\ SerBlank /\ EffIdle /\ PlInit /\ AppBlank /\ ExtBlank /\ OvBlank
SpecSheet == InitSheet /\ [][SheetNext]_vars

Spec == SpecStretch

====
